---- MODULE Spec2Model ----
(***************************************************************************)
(* The AddRetag MIR pass (librustc_mir/transform/add_retag.rs).            *)
(*                                                                         *)
(* A body is a sequence of basic blocks (index 1 is START_BLOCK), each an  *)
(* ordered statement list and a terminator, plus the local declarations.   *)
(* run_pass is modelled step by step: the flag test, the call-edge         *)
(* normalisation, PART 1 (argument retags), PART 2 (collect the call       *)
(* returns, then one insertion per collected return) and PART 3 (one step  *)
(* per statement index, descending, per block).                            *)
(***************************************************************************)
EXTENDS Integers, Sequences, FiniteSets, TLC

VARIABLES
    mir_emit_retag, \* tcx.sess.opts.debugging_opts.mir_emit_retag
    arg_count,      \* body.arg_count
    local_decls,    \* body.local_decls : local index -> declared type
    basic_blocks,   \* body.basic_blocks : sequence of blocks
    pc,             \* position inside run_pass
    returns,        \* PART 2's vector of collected (place, block) pairs
    blk,            \* PART 3: the block of the outer loop
    iter,           \* PART 3: the indices i the inner loop has yet to visit (counted from 0)
    input,          \* the blocks as handed to run_pass (history)
    visited,        \* PART 3: per block, the statements read at statements[i] (history)
    query,          \* the place handed to the classifiers
    answer          \* what the classifiers returned for query

vars == <<mir_emit_retag, arg_count, local_decls, basic_blocks, pc, returns,
          blk, iter, input, visited, query, answer>>

----------------------------------------------------------------------------
(* Bounds of the explored inputs *)

\* argument locals of a body
MaxArgs == 2

\* blocks of an input body (the call guards add more)
NumBlocks == 2

\* statements of a straight-line input body
MaxStmts == 2

\* projection elements of a place handed to the classifiers
MaxProj == 2

----------------------------------------------------------------------------
(* Types, places, statements, terminators *)

START_BLOCK == 1

RETURN_PLACE == 0

\* ty.kind, with is_box telling the owning box apart among the Adt types
Ty(k) == [kind |-> k, is_box |-> FALSE]

BoxTy == [kind |-> "Adt", is_box |-> TRUE]

PrimitiveKinds ==
    {"Bool", "Char", "Float", "Int", "Uint", "RawPtr", "FnPtr", "Str", "FnDef", "Never"}

CompoundKinds == {"Array", "Slice", "Tuple", "Adt"}

OtherKinds ==
    {"Foreign", "Dynamic", "Closure", "Generator", "GeneratorWitness", "Projection",
     "Opaque", "Param", "Bound", "Placeholder", "Infer", "Error"}

TyKinds == PrimitiveKinds \cup {"Ref"} \cup CompoundKinds \cup OtherKinds

AllTys == {Ty(k) : k \in TyKinds} \cup {BoxTy}

ElemKinds == {"Deref", "Field", "Index", "ConstantIndex", "Subslice", "Downcast"}

\* a projection element, with the type the projected place has
Elem(e, t) == [elem |-> e, ty |-> t]

Place(l, proj) == [local |-> l, projection |-> proj]

PlaceFrom(l) == Place(l, <<>>)

NoPlace == Place(RETURN_PLACE, <<>>)

NoRvalue == [rv |-> "-", borrow_kind |-> "-", allow_two_phase_borrow |-> FALSE]

AddressOf == [rv |-> "AddressOf", borrow_kind |-> "-", allow_two_phase_borrow |-> FALSE]

Use == [rv |-> "Use", borrow_kind |-> "-", allow_two_phase_borrow |-> FALSE]

Ref(bk, two) == [rv |-> "Ref", borrow_kind |-> bk, allow_two_phase_borrow |-> two]

Assign(p, r) == [kind |-> "Assign", place |-> p, rvalue |-> r, retag |-> "-"]

Retag(k, p) == [kind |-> "Retag", place |-> p, rvalue |-> NoRvalue, retag |-> k]

StorageLive(l) ==
    [kind |-> "StorageLive", place |-> PlaceFrom(l), rvalue |-> NoRvalue, retag |-> "-"]

Call(p, t) == [kind |-> "Call", has_dest |-> TRUE, place |-> p, target |-> t]

CallDiverging == [kind |-> "Call", has_dest |-> FALSE, place |-> NoPlace, target |-> 0]

Drop(p, t) == [kind |-> "Drop", has_dest |-> FALSE, place |-> p, target |-> t]

DropAndReplace(p, t) ==
    [kind |-> "DropAndReplace", has_dest |-> FALSE, place |-> p, target |-> t]

Goto(t) == [kind |-> "Goto", has_dest |-> FALSE, place |-> NoPlace, target |-> t]

Return == [kind |-> "Return", has_dest |-> FALSE, place |-> NoPlace, target |-> 0]

Block(ss, t) == [statements |-> ss, terminator |-> t]

----------------------------------------------------------------------------
(* The classifiers *)

\* BorrowKind::allows_two_phase_borrow
allows_two_phase_borrow(r) ==
    CASE r.borrow_kind \in {"Shared", "Shallow", "Unique"} -> FALSE
      [] r.borrow_kind = "Mut" -> r.allow_two_phase_borrow
      [] OTHER -> FALSE

\* the arm of is_stable's match for one projection element
stable_elem(e) ==
    CASE e.elem = "Deref" -> FALSE
      [] e.elem \in {"Index", "Field", "ConstantIndex", "Subslice", "Downcast"} -> TRUE

\* is_stable with any() for all()
is_stable_any(place) ==
    \E k \in 1..Len(place.projection) : stable_elem(place.projection[k])

is_stable(place) ==
    \A k \in 1..Len(place.projection) : stable_elem(place.projection[k])

\* may_be_reference with the arm of the compound types ahead of the box's
may_be_reference_adt_first(ty) ==
    CASE ty.kind \in {"Bool", "Char", "Float", "Int", "Uint", "RawPtr", "FnPtr",
                      "Str", "FnDef", "Never"} -> FALSE
      [] ty.kind = "Ref" -> TRUE
      [] ty.kind \in {"Array", "Slice", "Tuple", "Adt"} -> FALSE
      [] OTHER -> TRUE

may_be_reference(ty) ==
    CASE ty.kind \in {"Bool", "Char", "Float", "Int", "Uint", "RawPtr", "FnPtr",
                      "Str", "FnDef", "Never"} -> FALSE
      [] ty.kind = "Ref" -> TRUE
      [] ty.kind = "Adt" /\ ty.is_box -> TRUE
      [] ty.kind \in {"Array", "Slice", "Tuple", "Adt"} -> FALSE
      [] OTHER -> TRUE

\* place.ty(local_decls, tcx).ty
PlaceTy(place, decls) ==
    IF place.projection = <<>>
    THEN decls[place.local]
    ELSE place.projection[Len(place.projection)].ty

needs_retag(place, decls) ==
    is_stable(place) /\ may_be_reference(PlaceTy(place, decls))

----------------------------------------------------------------------------
(* Vector helpers *)

\* Insert writing over the element at index
InsertOverwrite(s, index, e) ==
    SubSeq(s, 1, index) \o <<e>> \o SubSeq(s, index + 2, Len(s))

\* Vec::insert(index, element), index counted from 0
Insert(s, index, e) ==
    SubSeq(s, 1, index) \o <<e>> \o SubSeq(s, index + 1, Len(s))

\* SpliceFront extending the vector at its end
SpliceBack(s, items) == s \o items

\* Vec::splice(0..0, items)
SpliceFront(s, items) == items \o s

RECURSIVE Flatten(_)
Flatten(ss) == IF ss = <<>> THEN <<>> ELSE Head(ss) \o Flatten(Tail(ss))

----------------------------------------------------------------------------
(* add_call_guards::AllCallEdges: every call edge into a block with more   *)
(* than one predecessor is routed through a fresh block holding a Goto.    *)

Successors(t) ==
    IF (t.kind = "Call" /\ t.has_dest) \/ t.kind \in {"Drop", "DropAndReplace", "Goto"}
    THEN {t.target}
    ELSE {}

pred_count(bbs, b) ==
    Cardinality({k \in 1..Len(bbs) : b \in Successors(bbs[k].terminator)})

RECURSIVE AddCallGuards(_, _, _)
AddCallGuards(bbs, orig, k) ==
    IF k > Len(orig)
    THEN bbs
    ELSE LET t == orig[k].terminator
         IN  IF t.kind = "Call" /\ t.has_dest /\ pred_count(orig, t.target) > 1
             THEN AddCallGuards(
                      Append([bbs EXCEPT ![k].terminator.target = Len(bbs) + 1],
                             Block(<<>>, Goto(t.target))),
                      orig, k + 1)
             ELSE AddCallGuards(bbs, orig, k + 1)

AllCallEdges(bbs) == AddCallGuards(bbs, bbs, 1)

----------------------------------------------------------------------------
(* PART 1: the argument places that get a FnEntry retag *)

\* local_decls.iter_enumerated().skip(1).take(arg_count)
ArgLocals(decls, n) ==
    LET last == Cardinality(DOMAIN decls) - 1
        m == IF n < last THEN n ELSE last
    IN  [k \in 1..m |-> k]

ArgPlaces(decls, n) ==
    SelectSeq([k \in 1..Len(ArgLocals(decls, n)) |-> PlaceFrom(ArgLocals(decls, n)[k])],
              LAMBDA p : needs_retag(p, decls))

EntryRetags(decls, n) ==
    [k \in 1..Len(ArgPlaces(decls, n)) |-> Retag("FnEntry", ArgPlaces(decls, n)[k])]

(* PART 2: what one terminator contributes to the vector of returns *)

\* ReturnOf without the test of needs_retag
ReturnOfAnyDestination(t, decls) ==
    CASE t.kind = "Call" ->
             IF t.has_dest
             THEN <<[place |-> t.place, block |-> t.target]>>
             ELSE <<>>
      [] OTHER -> <<>>

ReturnOf(t, decls) ==
    CASE t.kind = "Call" ->
             IF t.has_dest /\ needs_retag(t.place, decls)
             THEN <<[place |-> t.place, block |-> t.target]>>
             ELSE <<>>
      [] t.kind \in {"Drop", "DropAndReplace"} -> <<>>
      [] OTHER -> <<>>

CollectReturns(bbs, decls) ==
    Flatten([k \in 1..Len(bbs) |-> ReturnOf(bbs[k].terminator, decls)])

(* PART 3: the retag, if any, that follows one statement *)

\* RetagAfter with the raw retag put under needs_retag as well
RetagAfterWhenNeeded(st, decls) ==
    CASE st.kind = "Assign" /\ needs_retag(st.place, decls) ->
             IF st.rvalue.rv = "AddressOf"
             THEN <<Retag("Raw", st.place)>>
             ELSE IF st.rvalue.rv = "Ref" /\ allows_two_phase_borrow(st.rvalue)
                  THEN <<Retag("TwoPhase", st.place)>>
                  ELSE <<Retag("Default", st.place)>>
      [] OTHER -> <<>>

RetagAfter(st, decls) ==
    CASE st.kind = "Assign" /\ st.rvalue.rv = "AddressOf" ->
             <<Retag("Raw", st.place)>>
      [] st.kind = "Assign" /\ st.rvalue.rv # "AddressOf" /\ needs_retag(st.place, decls) ->
             IF st.rvalue.rv = "Ref" /\ allows_two_phase_borrow(st.rvalue)
             THEN <<Retag("TwoPhase", st.place)>>
             ELSE <<Retag("Default", st.place)>>
      [] OTHER -> <<>>

\* the index the retag is inserted at, for the statement at index i
RetagIndex(i) == i + 1

\* RevRange without the rev()
FwdRange(len) == [k \in 1..len |-> k - 1]

\* (0..len).rev()
RevRange(len) == [k \in 1..len |-> len - k]

----------------------------------------------------------------------------
(* The bodies the pass is run on *)

Locals == 0..(MaxArgs + 1)

TempLocal == MaxArgs + 1

\* a declaration table: a reference returned, a raw-pointer temporary, and the
\* other locals typed by the parity of their index
DeclTable(odd, even) ==
    [l \in Locals |->
        CASE l = RETURN_PLACE -> Ty("Ref")
          [] l = TempLocal -> Ty("RawPtr")
          [] l % 2 = 1 -> odd
          [] OTHER -> even]

DeclTables == {DeclTable(Ty("Ref"), BoxTy), DeclTable(Ty("Tuple"), Ty("Ref"))}

Derefable(ty) == ty.kind \in {"Ref", "RawPtr"} \/ (ty.kind = "Adt" /\ ty.is_box)

\* the first local after the return place that holds a pointer
PointerLocal(decls) ==
    CHOOSE m \in 1..2 : Derefable(decls[m]) /\ \A j \in 1..(m - 1) : ~Derefable(decls[j])

\* the places of the input statements: the first two locals, the temporary,
\* and what the pointer local points to, a value of type ty
DerefPlace(decls, ty) == Place(PointerLocal(decls), <<Elem("Deref", ty)>>)

StmtSet(decls) ==
    {Assign(PlaceFrom(l), Use) : l \in 1..2}
    \cup {Assign(DerefPlace(decls, Ty("Ref")), Use)}
    \cup {Assign(PlaceFrom(PointerLocal(decls)), r) :
            r \in {Ref("Mut", TRUE), Ref("Mut", FALSE), Ref("Shared", FALSE)}}
    \cup {Assign(PlaceFrom(TempLocal), AddressOf)}
    \cup {Assign(DerefPlace(decls, Ty("RawPtr")), AddressOf)}
    \cup {StorageLive(TempLocal)}

TermSet(decls, n) ==
    {Return, CallDiverging}
    \cup {Goto(t) : t \in 1..n}
    \cup {Call(PlaceFrom(l), t) : l \in 1..2, t \in 1..n}
    \cup {Drop(PlaceFrom(TempLocal), n), DropAndReplace(PlaceFrom(1), START_BLOCK)}

RECURSIVE SeqsOfLen(_, _)
SeqsOfLen(S, n) ==
    IF n = 0
    THEN {<<>>}
    ELSE {Append(s, x) : s \in SeqsOfLen(S, n - 1), x \in S}

SeqsUpTo(S, n) == UNION {SeqsOfLen(S, k) : k \in 0..n}

\* straight-line bodies: at most MaxStmts statements over the blocks, block k
\* falling through to block k + 1
LinearTerm(k) == IF k < NumBlocks THEN Goto(k + 1) ELSE Return

Splits(ss) ==
    {c \in [1..NumBlocks -> 0..Len(ss)] :
        /\ c[NumBlocks] = Len(ss)
        /\ \A k \in 1..(NumBlocks - 1) : c[k] <= c[k + 1]}

LinearBody(ss, c) ==
    [k \in 1..NumBlocks |->
        Block(SubSeq(ss, (IF k = 1 THEN 0 ELSE c[k - 1]) + 1, c[k]), LinearTerm(k))]

\* branching bodies: any terminators, every block holding the same short prefix
ProbeStmts(decls) ==
    {<<>>, <<Assign(PlaceFrom(PointerLocal(decls)), Use)>>}

BranchingBody(ss, ts) == [k \in 1..NumBlocks |-> Block(ss, ts[k])]

IsInputBody(bbs, decls) ==
    \/ \E ss \in SeqsUpTo(StmtSet(decls), MaxStmts) :
           \E c \in Splits(ss) : bbs = LinearBody(ss, c)
    \/ \E ss \in ProbeStmts(decls) :
           \E ts \in [1..NumBlocks -> TermSet(decls, NumBlocks)] : bbs = BranchingBody(ss, ts)

----------------------------------------------------------------------------
(* run_pass *)

NoAnswer == [stable |-> FALSE, may_ref |-> FALSE, needs |-> FALSE]

Init ==
    /\ mir_emit_retag \in BOOLEAN
    /\ arg_count \in 0..MaxArgs
    /\ local_decls \in DeclTables
    /\ IsInputBody(basic_blocks, local_decls)
    /\ input = basic_blocks
    /\ pc = "run_pass"
    /\ returns = <<>>
    /\ blk = 0
    /\ iter = <<>>
    /\ visited = <<>>
    /\ query = NoPlace
    /\ answer = NoAnswer

\* lines 62-64: the flag is off, nothing is done
Disabled ==
    /\ pc = "run_pass"
    /\ ~mir_emit_retag
    /\ pc' = "done"
    /\ UNCHANGED <<mir_emit_retag, arg_count, local_decls, basic_blocks, returns,
                   blk, iter, input, visited, query, answer>>

\* CallGuards without the test of the flag
CallGuardsUnguarded ==
    /\ pc = "run_pass"
    /\ basic_blocks' = AllCallEdges(basic_blocks)
    /\ pc' = "part1"
    /\ UNCHANGED <<mir_emit_retag, arg_count, local_decls, returns,
                   blk, iter, input, visited, query, answer>>

\* line 67
CallGuards ==
    /\ pc = "run_pass"
    /\ mir_emit_retag
    /\ basic_blocks' = AllCallEdges(basic_blocks)
    /\ pc' = "part1"
    /\ UNCHANGED <<mir_emit_retag, arg_count, local_decls, returns,
                   blk, iter, input, visited, query, answer>>

\* lines 77-99
Part1 ==
    /\ pc = "part1"
    /\ basic_blocks' =
           [basic_blocks EXCEPT ![START_BLOCK].statements =
               SpliceFront(@, EntryRetags(local_decls, arg_count))]
    /\ pc' = "part2_collect"
    /\ UNCHANGED <<mir_emit_retag, arg_count, local_decls, returns,
                   blk, iter, input, visited, query, answer>>

\* lines 104-126
Part2Collect ==
    /\ pc = "part2_collect"
    /\ returns' = CollectReturns(basic_blocks, local_decls)
    /\ pc' = "part2_insert"
    /\ UNCHANGED <<mir_emit_retag, arg_count, local_decls, basic_blocks,
                   blk, iter, input, visited, query, answer>>

\* lines 128-136, one iteration
Part2Insert ==
    /\ pc = "part2_insert"
    /\ returns # <<>>
    /\ basic_blocks' =
           [basic_blocks EXCEPT ![Head(returns).block].statements =
               Insert(@, 0, Retag("Default", Head(returns).place))]
    /\ returns' = Tail(returns)
    /\ UNCHANGED <<mir_emit_retag, arg_count, local_decls, pc,
                   blk, iter, input, visited, query, answer>>

\* line 140, entering the first block and line 143's range for it
Part3Enter ==
    /\ pc = "part2_insert"
    /\ returns = <<>>
    /\ pc' = "part3"
    /\ blk' = 1
    /\ iter' = RevRange(Len(basic_blocks[1].statements))
    /\ visited' = [k \in 1..Len(basic_blocks) |-> <<>>]
    /\ UNCHANGED <<mir_emit_retag, arg_count, local_decls, basic_blocks, returns,
                   input, query, answer>>

\* lines 143-172, one iteration of the inner loop
Part3Step ==
    /\ pc = "part3"
    /\ iter # <<>>
    /\ Head(iter) < Len(basic_blocks[blk].statements)
    /\ LET st == basic_blocks[blk].statements[Head(iter) + 1]
           new == RetagAfter(st, local_decls)
       IN  /\ basic_blocks' =
                  IF new = <<>>
                  THEN basic_blocks
                  ELSE [basic_blocks EXCEPT ![blk].statements =
                           Insert(@, RetagIndex(Head(iter)), new[1])]
           /\ visited' = [visited EXCEPT ![blk] = <<st>> \o @]
    /\ iter' = Tail(iter)
    /\ UNCHANGED <<mir_emit_retag, arg_count, local_decls, pc, returns, blk,
                   input, query, answer>>

\* line 140, the next block
Part3NextBlock ==
    /\ pc = "part3"
    /\ iter = <<>>
    /\ blk < Len(basic_blocks)
    /\ blk' = blk + 1
    /\ iter' = RevRange(Len(basic_blocks[blk + 1].statements))
    /\ UNCHANGED <<mir_emit_retag, arg_count, local_decls, basic_blocks, pc, returns,
                   input, visited, query, answer>>

\* line 174
Part3Done ==
    /\ pc = "part3"
    /\ iter = <<>>
    /\ blk = Len(basic_blocks)
    /\ pc' = "done"
    /\ UNCHANGED <<mir_emit_retag, arg_count, local_decls, basic_blocks, returns,
                   blk, iter, input, visited, query, answer>>

Next ==
    \/ Disabled
    \/ CallGuards
    \/ Part1
    \/ Part2Collect
    \/ Part2Insert
    \/ Part3Enter
    \/ Part3Step
    \/ Part3NextBlock
    \/ Part3Done

Spec == Init /\ [][Next]_vars

----------------------------------------------------------------------------
(* The classifiers on their own: one place, of any type and any projection *)
(* chain up to MaxProj elements, is handed to them.                         *)

\* a type on which projection element e applies
BaseFor(e) ==
    CASE e = "Deref" -> Ty("Ref")
      [] e \in {"Field", "Downcast"} -> Ty("Adt")
      [] OTHER -> Ty("Array")

\* the types projection element e can yield
YieldOK(e, ty) ==
    CASE e = "Subslice" -> ty \in {Ty("Array"), Ty("Slice")}
      [] e = "Downcast" -> ty = Ty("Adt")
      [] OTHER -> TRUE

Chain(ks, ty) ==
    [k \in 1..Len(ks) |-> Elem(ks[k], IF k = Len(ks) THEN ty ELSE BaseFor(ks[k + 1]))]

WellTyped(proj) == \A k \in 1..Len(proj) : YieldOK(proj[k].elem, proj[k].ty)

InitClassify ==
    /\ mir_emit_retag = TRUE
    /\ arg_count = 0
    /\ \E ks \in SeqsUpTo(ElemKinds, MaxProj) :
           \E ty \in AllTys :
               /\ WellTyped(Chain(ks, ty))
               /\ query = Place(RETURN_PLACE, Chain(ks, ty))
               /\ local_decls = [l \in Locals |-> IF ks = <<>> THEN ty ELSE BaseFor(ks[1])]
    /\ basic_blocks = <<Block(<<>>, Return)>>
    /\ input = basic_blocks
    /\ pc = "classify"
    /\ returns = <<>>
    /\ blk = 0
    /\ iter = <<>>
    /\ visited = <<>>
    /\ answer = NoAnswer

Classify ==
    /\ pc = "classify"
    /\ answer' = [stable |-> is_stable(query),
                  may_ref |-> may_be_reference(PlaceTy(query, local_decls)),
                  needs |-> needs_retag(query, local_decls)]
    /\ pc' = "classified"
    /\ UNCHANGED <<mir_emit_retag, arg_count, local_decls, basic_blocks, returns,
                   blk, iter, input, visited, query>>

NextClassify == Classify

SpecClassify == InitClassify /\ [][NextClassify]_vars

----------------------------------------------------------------------------
(* Vocabulary of the properties *)

Finished == pc = "done"

Ran == pc = "done" /\ mir_emit_retag

IsRetag(st) == st.kind = "Retag"

IsRetagOf(st, k) == st.kind = "Retag" /\ st.retag = k

HasDeref(place) == \E k \in 1..Len(place.projection) : place.projection[k].elem = "Deref"

StripRetags(ss) == SelectSeq(ss, LAMBDA st : ~IsRetag(st))

Stmts(b) == basic_blocks[b].statements

\* the statements block b had when the pass was called (none for a block added since)
InputStmts(b) == IF b <= Len(input) THEN input[b].statements ELSE <<>>

IsReturnCall(t) == t.kind = "Call" /\ t.has_dest

\* every call's return block has that call as its only predecessor
Normalized(bbs) ==
    \A k \in 1..Len(bbs) :
        IsReturnCall(bbs[k].terminator) => pred_count(bbs, bbs[k].terminator.target) = 1

\* the assignments PART 3 puts a retag after
Qualifies(st) ==
    /\ st.kind = "Assign"
    /\ (st.rvalue.rv = "AddressOf" \/ needs_retag(st.place, local_decls))

RECURSIVE OnlyRetagsAdded(_, _)
OnlyRetagsAdded(old, new) ==
    IF new = <<>>
    THEN old = <<>>
    ELSE \/ /\ old # <<>>
            /\ Head(old) = Head(new)
            /\ OnlyRetagsAdded(Tail(old), Tail(new))
         \/ /\ IsRetag(Head(new))
            /\ OnlyRetagsAdded(old, Tail(new))

----------------------------------------------------------------------------
(* C1: with the flag off, run_pass leaves the body as it was given: the    *)
(* same blocks, statements and terminators; no call guard is added and no  *)
(* Retag statement is inserted.                                            *)
C1_DisabledIsNoOp ==
    ~mir_emit_retag =>
        /\ basic_blocks = input
        /\ pc \in {"run_pass", "done"}

\* the flag is off, the pass has returned, and with the flag on it would have
\* added a call guard and an entry retag
C1_Witness ==
    /\ Finished
    /\ ~mir_emit_retag
    /\ AllCallEdges(input) # input
    /\ EntryRetags(local_decls, arg_count) # <<>>

(* C2: after an enabled run, an argument local a in 1..arg_count has a     *)
(* Retag(FnEntry, a) in the entry block iff needs_retag(a); each such      *)
(* retag occurs once, they are in increasing argument order, none comes    *)
(* after a statement the entry block had before the pass, local 0 has      *)
(* none, and no other block holds a FnEntry retag.                         *)
C2_EntryCompleteness ==
    Ran =>
        LET E == Stmts(START_BLOCK)
            at == {k \in 1..Len(E) : IsRetagOf(E[k], "FnEntry")}
        IN  /\ \A a \in 1..arg_count :
                   needs_retag(PlaceFrom(a), local_decls)
                       <=> \E k \in at : E[k].place = PlaceFrom(a)
            /\ \A j \in at : \A k \in at : E[j].place = E[k].place => j = k
            /\ \A j \in at : \A k \in at : j < k => E[j].place.local < E[k].place.local
            /\ \A k \in at :
                   /\ E[k].place.projection = <<>>
                   /\ E[k].place.local \in 1..arg_count
                   /\ \A j \in 1..(k - 1) : IsRetag(E[j])
            /\ \A b \in 1..Len(basic_blocks) :
                   b # START_BLOCK =>
                       \A k \in 1..Len(Stmts(b)) : ~IsRetagOf(Stmts(b)[k], "FnEntry")

\* two arguments were retagged, the return place is pointer-like, the entry
\* block had statements of its own and a call returns into another block
C2_Witness ==
    /\ Ran
    /\ Cardinality({k \in 1..Len(Stmts(START_BLOCK)) :
                       IsRetagOf(Stmts(START_BLOCK)[k], "FnEntry")}) = 2
    /\ needs_retag(PlaceFrom(RETURN_PLACE), local_decls)
    /\ InputStmts(START_BLOCK) # <<>>
    /\ \E b \in 2..Len(basic_blocks) : Stmts(b) # <<>> /\ IsRetag(Stmts(b)[1])

(* C3: after an enabled run on a normalised body, the return block of      *)
(* every call whose destination needs a retag starts with                  *)
(* Retag(Default, destination), once; and a block starts with a Default    *)
(* retag only if such a call returns into it, so calls without a           *)
(* destination, calls whose destination needs no retag and drops add none. *)
C3_CallReturnCompleteness ==
    (Ran /\ Normalized(basic_blocks)) =>
        /\ \A b \in 1..Len(basic_blocks) :
               LET t == basic_blocks[b].terminator
               IN  (IsReturnCall(t) /\ needs_retag(t.place, local_decls)) =>
                       LET ss == Stmts(t.target)
                       IN  /\ ss # <<>>
                           /\ ss[1] = Retag("Default", t.place)
                           /\ Len(ss) >= 2 => ~IsRetagOf(ss[2], "Default")
        /\ \A c \in 1..Len(basic_blocks) :
               (Stmts(c) # <<>> /\ IsRetagOf(Stmts(c)[1], "Default")) =>
                   \E b \in 1..Len(basic_blocks) :
                       LET t == basic_blocks[b].terminator
                       IN  /\ IsReturnCall(t)
                           /\ t.target = c
                           /\ Stmts(c)[1].place = t.place
                           /\ needs_retag(t.place, local_decls)

\* two calls return into two different blocks, both destinations need a
\* retag, and the blocks had an assignment of their own at their head
C3_Witness ==
    /\ Ran
    /\ Normalized(basic_blocks)
    /\ \E a \in 1..Len(basic_blocks) : \E b \in 1..Len(basic_blocks) :
           LET ta == basic_blocks[a].terminator
               tb == basic_blocks[b].terminator
           IN  /\ IsReturnCall(ta) /\ IsReturnCall(tb)
               /\ ta.target # tb.target
               /\ needs_retag(ta.place, local_decls)
               /\ needs_retag(tb.place, local_decls)
               /\ InputStmts(ta.target) # <<>>
               /\ InputStmts(tb.target) # <<>>

(* C4: after an enabled run, every Assign(p, AddressOf) is directly        *)
(* followed by Retag(Raw, p); every other Assign(p, e) with needs_retag(p) *)
(* is directly followed by Retag(TwoPhase, p) when e is a two-phase        *)
(* mutable borrow and by Retag(Default, p) otherwise; an assignment that   *)
(* is neither is not directly followed by a retag.                         *)
C4_PostAssignment ==
    Ran =>
        \A b \in 1..Len(basic_blocks) :
            \A k \in 1..Len(Stmts(b)) :
                LET st == Stmts(b)[k]
                    after == IF k < Len(Stmts(b)) THEN <<Stmts(b)[k + 1]>> ELSE <<>>
                    two == /\ st.rvalue.rv = "Ref"
                           /\ st.rvalue.borrow_kind = "Mut"
                           /\ st.rvalue.allow_two_phase_borrow
                IN  st.kind = "Assign" =>
                        CASE st.rvalue.rv = "AddressOf" ->
                                 after = <<Retag("Raw", st.place)>>
                          [] st.rvalue.rv # "AddressOf"
                               /\ needs_retag(st.place, local_decls) ->
                                 after = <<Retag(IF two THEN "TwoPhase" ELSE "Default",
                                                 st.place)>>
                          [] OTHER -> after = <<>> \/ ~IsRetag(after[1])

\* one body with a raw address stored through a dereference and a two-phase
\* borrow stored into a pointer local, each followed by its retag
C4_Witness ==
    /\ Ran
    /\ \E b \in 1..Len(basic_blocks) : \E k \in 1..Len(Stmts(b)) :
           /\ IsRetagOf(Stmts(b)[k], "Raw")
           /\ HasDeref(Stmts(b)[k].place)
    /\ \E b \in 1..Len(basic_blocks) : \E k \in 1..Len(Stmts(b)) :
           IsRetagOf(Stmts(b)[k], "TwoPhase")

(* C5: when the pass has returned, each block without its Retag statements *)
(* is the block's input statement list; PART 3 read each statement the     *)
(* block had when PART 3 reached it once, in order, and none of the retags *)
(* it inserted, and it inserted one retag per qualifying assignment.       *)
C5_OrderPreserved ==
    Finished =>
        /\ \A b \in 1..Len(basic_blocks) : StripRetags(Stmts(b)) = InputStmts(b)
        /\ mir_emit_retag =>
               \A b \in 1..Len(basic_blocks) :
                   /\ StripRetags(visited[b]) = InputStmts(b)
                   /\ Len(Stmts(b)) =
                          Len(visited[b])
                          + Cardinality({k \in 1..Len(InputStmts(b)) :
                                            Qualifies(InputStmts(b)[k])})
                   /\ \A k \in 1..Len(visited[b]) :
                          ~IsRetagOf(visited[b][k], "Raw")
                          /\ ~IsRetagOf(visited[b][k], "TwoPhase")

\* two qualifying assignments next to each other in one block, each followed
\* by a retag of its own
C5_Witness ==
    /\ Ran
    /\ \E b \in 1..Len(basic_blocks) :
           /\ Len(InputStmts(b)) >= 2
           /\ Qualifies(InputStmts(b)[1])
           /\ Qualifies(InputStmts(b)[2])
           /\ Len(Stmts(b)) >= 4
           /\ Stmts(b)[1] = InputStmts(b)[1] /\ IsRetag(Stmts(b)[2])
           /\ Stmts(b)[3] = InputStmts(b)[2] /\ IsRetag(Stmts(b)[4])

(* C6: is_stable is false exactly for the chains holding a Deref at some   *)
(* position, and true for every chain of Field, Index, ConstantIndex,      *)
(* Subslice and Downcast elements, the empty chain included.               *)
C6_Stability ==
    pc = "classified" =>
        /\ answer.stable = FALSE <=> HasDeref(query)
        /\ (\A k \in 1..Len(query.projection) :
                query.projection[k].elem \in
                    {"Field", "Index", "ConstantIndex", "Subslice", "Downcast"})
               => answer.stable = TRUE

\* a chain whose Deref is not its first element
C6_Witness ==
    /\ pc = "classified"
    /\ Len(query.projection) >= 2
    /\ query.projection[1].elem = "Field"
    /\ query.projection[2].elem = "Deref"
    /\ answer.stable = FALSE

(* C7: may_be_reference is false for the primitive kinds, true for a       *)
(* reference, true for the box among the Adt types and false for the other *)
(* Adt types, arrays, slices and tuples, and true for every other kind;    *)
(* needs_retag is is_stable and may_be_reference of the place's type.      *)
C7_PointerLikeness ==
    pc = "classified" =>
        LET ty == PlaceTy(query, local_decls)
        IN  /\ ty.kind \in {"Bool", "Char", "Float", "Int", "Uint", "RawPtr", "FnPtr",
                            "FnDef", "Str", "Never"} => answer.may_ref = FALSE
            /\ ty.kind = "Ref" => answer.may_ref = TRUE
            /\ ty.kind = "Adt" => answer.may_ref = ty.is_box
            /\ ty.kind \in {"Array", "Slice", "Tuple"} => answer.may_ref = FALSE
            /\ ty.kind \in OtherKinds => answer.may_ref = TRUE
            /\ answer.needs = (answer.stable /\ answer.may_ref)

\* a box reached through a field
C7_Witness ==
    /\ pc = "classified"
    /\ PlaceTy(query, local_decls) = BoxTy
    /\ query.projection # <<>>
    /\ answer.needs = TRUE

C9_CfgFrame ==
    [][pc # "run_pass" =>
          /\ Len(basic_blocks') = Len(basic_blocks)
          /\ \A b \in 1..Len(basic_blocks) :
                 /\ basic_blocks'[b].terminator = basic_blocks[b].terminator
                 /\ OnlyRetagsAdded(basic_blocks[b].statements, basic_blocks'[b].statements)
          /\ local_decls' = local_decls
          /\ arg_count' = arg_count]_vars

\* a run that added call guards and then retags in all three parts
C9_Witness ==
    /\ Ran
    /\ Len(basic_blocks) > Len(input)
    /\ \E b \in 1..Len(basic_blocks) : \E k \in 1..Len(Stmts(b)) :
           IsRetagOf(Stmts(b)[k], "FnEntry")
    /\ \E b \in 1..Len(basic_blocks) : Stmts(b) # <<>> /\ IsRetagOf(Stmts(b)[1], "Default")
    /\ \E b \in 1..Len(basic_blocks) : \E k \in 2..Len(Stmts(b)) :
           IsRetag(Stmts(b)[k]) /\ Stmts(b)[k - 1].kind = "Assign"

(* C10: after an enabled run on a normalised body, the FnEntry retags are  *)
(* the first statements of the entry block, from index 0 on.               *)
C10_EntryRetagsLead ==
    (Ran /\ Normalized(basic_blocks)) =>
        LET E == Stmts(START_BLOCK)
            n == Cardinality({k \in 1..Len(E) : IsRetagOf(E[k], "FnEntry")})
        IN  \A k \in 1..n : IsRetagOf(E[k], "FnEntry")

====
